---- MODULE Spec2Model ----
(***************************************************************************)
(* clipboard-sync: the peer session registry, the broadcast fan-out, the   *)
(* inbound protocol handler, the discovery connector and the clipboard     *)
(* polling loop of src/network.rs and src/main.rs, as a state machine over *)
(* a small set of devices.  Every await of the source is a step boundary.  *)
(***************************************************************************)
EXTENDS Naturals, Sequences, FiniteSets, TLC

(* ------------------------------ bounds --------------------------------- *)

\* polling ticks recorded in the detector specification
MaxTicks == 5
\* user clipboard changes per device in the two-device specification
MaxCopies == 2
\* connections the transport opens from one device to one peer in one run
MaxSessions == 2

(* ------------------------------ values --------------------------------- *)

Nodes == {"A", "B", "C", "D"}

NoConn == 0

\* main.rs:297 / clipboard::ClipboardContentType
ContentTypes == {"Empty", "Text", "Image"}

NoImage == [width |-> 0, height |-> 0, data |-> <<>>]
Img1 == [width |-> 2, height |-> 1, data |-> <<7, 7>>]

\* The OS clipboard of a device: what classify(), read_text() and
\* read_image() report.
ClipEmpty == [type |-> "Empty", text |-> "", image |-> NoImage]
ClipText(t) == [type |-> "Text", text |-> t, image |-> NoImage]
ClipImage(i) == [type |-> "Image", text |-> "", image |-> i]

\* network.rs:86-93
ContentText(t) == [tag |-> "Text", text |-> t, width |-> 0, height |-> 0, data |-> <<>>]
ContentImage(w, h, d) == [tag |-> "Image", text |-> "", width |-> w, height |-> h, data |-> d]

\* network.rs:145-154
new_text(content, sender_id, secs) ==
    [content |-> ContentText(content), timestamp |-> secs, sender_id |-> sender_id]

\* network.rs:157-166
new_image(width, height, data, sender_id, secs) ==
    [content |-> ContentImage(width, height, data), timestamp |-> secs,
     sender_id |-> sender_id]

NoMessage == new_text("", "", 0)

\* to_bytes that writes no timestamp
to_bytes_zero_timestamp(m) ==
    << [k |-> "{", v |-> NoMessage],
       [k |-> "content", v |-> m],
       [k |-> "timestamp", v |-> NoMessage],
       [k |-> "sender_id", v |-> m],
       [k |-> "}", v |-> NoMessage] >>

\* network.rs:169-171: the JSON object of a message, one token per
\* delimiter and per field.
to_bytes(m) ==
    << [k |-> "{", v |-> NoMessage],
       [k |-> "content", v |-> m],
       [k |-> "timestamp", v |-> m],
       [k |-> "sender_id", v |-> m],
       [k |-> "}", v |-> NoMessage] >>

\* network.rs:174-176: succeeds on a complete object only.
from_bytes(bytes) ==
    IF /\ Len(bytes) = 5
       /\ bytes[1].k = "{"
       /\ bytes[2].k = "content"
       /\ bytes[3].k = "timestamp"
       /\ bytes[4].k = "sender_id"
       /\ bytes[5].k = "}"
    THEN [ok |-> TRUE,
          value |-> [content |-> bytes[2].v.content,
                     timestamp |-> bytes[3].v.timestamp,
                     sender_id |-> bytes[4].v.sender_id]]
    ELSE [ok |-> FALSE, value |-> NoMessage]

\* network.rs:52
BufSize == 4096

Min(a, b) == IF a < b THEN a ELSE b

\* network.rs:243-245
get_node_id(n) == n

\* network.rs:181-184, 248-256: the ticket of a device, addresses empty.
generate_ticket(n) == [node_id |-> n, addresses |-> <<>>]

(* ------------------------------ state ---------------------------------- *)

VARIABLES
    cli,                \* per device: the command line (command, ticket)
    pc,                 \* per device: position of the main task
    clip,               \* per device: the OS clipboard
    copies,             \* per device: user clipboard changes so far
    last_text_content,  \* per device: main.rs:296
    last_content_type,  \* per device: main.rs:297
    connections,        \* per device: NetworkManager.connections
    regLock,            \* per device: holder of the connections mutex
    bc,                 \* per device: the frame of the running broadcast_message
    message_sender,     \* per device: ClipboardProtocol.message_sender is Some
    queue,              \* per device: the unbounded channel of messages
    conn,               \* conn[s][d][g]: the g-th connection s opened to d
    streams,            \* streams[s][d][g]: the streams s opened on it
    acc,                \* acc[s][d][g]: the accept handler d runs for it
    disc,               \* per device: the discovery task
    sig,                \* per device: the interrupt handler and signal
    now,                \* the system clock, in seconds
    ticklog,            \* per device: the ticks of the polling loop so far
    applied,            \* per device: the messages the message task took
    pure                \* the call of a pure function under examination

vars == << cli, pc, clip, copies, last_text_content, last_content_type,
           connections, regLock, bc, message_sender, queue, conn, streams,
           acc, disc, sig, now, ticklog, applied, pure >>

netVars == << connections, regLock, message_sender, queue, conn, streams,
              acc, disc >>

(* ----------------------- clipboard collaborator ------------------------ *)

\* clipboard::ClipboardManager::get_content_type
get_content_type(c) == c.type

\* clipboard::ClipboardManager::get_text; ok is the OS call's outcome
get_text(c, ok) ==
    IF ok /\ c.type = "Text" THEN [ok |-> TRUE, text |-> c.text]
    ELSE [ok |-> FALSE, text |-> ""]

\* clipboard::ClipboardManager::get_image: Ok(Some(..)) or not
get_image(c, ok) ==
    IF ok /\ c.type = "Image" THEN [ok |-> TRUE, image |-> c.image]
    ELSE [ok |-> FALSE, image |-> NoImage]

\* clipboard::ClipboardManager::set_text / set_image applied to a message
set_clipboard(content) ==
    IF content.tag = "Text" THEN ClipText(content.text)
    ELSE ClipImage([width |-> content.width, height |-> content.height,
                    data |-> content.data])

(* --------------------------- the detector ------------------------------ *)

\* main.rs:17-18, network.rs:353: the sender id of a device's messages
device_name(n) == n

\* text_changed without the comparison with the last text
text_changed_always(current_content, last) == current_content # ""

\* main.rs:308
text_changed(current_content, last) ==
    current_content # last /\ current_content # ""

\* image_transition without the type check
image_transition_always(last_type) == TRUE

\* main.rs:323
image_transition(last_type) == last_type # "Image"

\* main.rs:338
empty_transition(last_type) == last_type # "Empty"

\* read_ok that takes a failed read for a successful one
read_ok_always(result) == TRUE

\* main.rs:307, 324: the `if let Ok(..)` / `if let Ok(Some(..))` patterns
read_ok(result) == result.ok

IdleFrame ==
    [message |-> NoMessage, data |-> <<>>, todo |-> {}, cur |-> "none",
     failed_connections |-> <<>>,
     snap |-> {}, attempted |-> {}, delivered |-> {}, io_failed |-> {},
     removed |-> {}, inserted |-> {}, final |-> {}, returned |-> FALSE,
     opens |-> [p \in Nodes |-> 0], writes |-> [p \in Nodes |-> 0],
     sess |-> [p \in Nodes |-> NoConn]]

\* network.rs:298-299: the frame of a call of broadcast_message
NewFrame(message) ==
    [IdleFrame EXCEPT !.message = message, !.data = to_bytes(message)]

\* What one tick decides: the message to broadcast, if any.
\* main.rs:303-343
TickDecision(n, textOk, imageOk) ==
    LET c == clip[n]
        current_type == get_content_type(c)
        t == get_text(c, textOk)
        i == get_image(c, imageOk)
    IN  IF current_type = "Text"
        THEN IF read_ok(t) /\ text_changed(t.text, last_text_content[n])
             THEN [bcast |-> TRUE,
                   message |-> new_text(t.text, device_name(n), now)]
             ELSE [bcast |-> FALSE, message |-> NoMessage]
        ELSE IF current_type = "Image"
        THEN IF image_transition(last_content_type[n]) /\ read_ok(i)
             THEN [bcast |-> TRUE,
                   message |-> new_image(i.image.width, i.image.height,
                                         i.image.data, device_name(n), now)]
             ELSE [bcast |-> FALSE, message |-> NoMessage]
        ELSE [bcast |-> FALSE, message |-> NoMessage]

\* record_last_text that keeps the old text when a delivery failed
record_last_text_if_delivered(last, current_content, failed) ==
    IF failed = <<>> THEN current_content ELSE last

\* main.rs:312-316: the error of the broadcast is printed, and the text is
\* recorded whatever the broadcast did
record_last_text(last, current_content, failed) == current_content

\* main.rs:316-317, 332: the detector state once the broadcast has returned
AfterBroadcast(n, message) ==
    /\ last_text_content' =
         IF message.content.tag = "Text"
         THEN [last_text_content EXCEPT ![n] =
                 record_last_text(@, message.content.text,
                                  bc[n].failed_connections)]
         ELSE last_text_content
    /\ last_content_type' =
         [last_content_type EXCEPT ![n] = message.content.tag]
    /\ pc' = [pc EXCEPT ![n] = "select"]

\* main.rs:300-343: one tick of the polling loop, up to the await of the
\* registry lock inside broadcast_message when the tick broadcasts.
TickBody(n, textOk, imageOk) ==
    LET d == TickDecision(n, textOk, imageOk)
    IN  /\ pc[n] = "sleep"
        /\ IF d.bcast
           THEN /\ bc' = [bc EXCEPT ![n] = NewFrame(d.message)]
                /\ pc' = [pc EXCEPT ![n] = "bc_lock"]
                /\ UNCHANGED << last_text_content, last_content_type >>
           ELSE /\ pc' = [pc EXCEPT ![n] = "select"]
                /\ bc' = [bc EXCEPT ![n] = IdleFrame]
                /\ IF get_content_type(clip[n]) = "Empty"
                      /\ empty_transition(last_content_type[n])
                   THEN /\ last_content_type' =
                             [last_content_type EXCEPT ![n] = "Empty"]
                        /\ last_text_content' =
                             [last_text_content EXCEPT ![n] = ""]
                   ELSE UNCHANGED << last_text_content, last_content_type >>
        /\ UNCHANGED << applied, pure, cli, clip, copies, sig, now >>
        /\ UNCHANGED netVars

\* What the tick saw, for the record of ticks.
Observation(n, textOk, imageOk) ==
    LET c == clip[n]
    IN  [type |-> c.type,
         text |-> IF c.type = "Text" /\ textOk THEN c.text ELSE "",
         ok |-> (c.type = "Empty") \/ (c.type = "Text" /\ textOk)
                \/ (c.type = "Image" /\ imageOk)]

poll_clipboard(n, textOk, imageOk) ==
    /\ TickBody(n, textOk, imageOk)
    /\ UNCHANGED ticklog

poll_clipboard_logged(n, textOk, imageOk) ==
    /\ Len(ticklog[n]) < MaxTicks
    /\ TickBody(n, textOk, imageOk)
    /\ ticklog' = [ticklog EXCEPT ![n] = Append(@,
         [obs |-> Observation(n, textOk, imageOk),
          prev_type |-> last_content_type[n],
          prev_text |-> last_text_content[n],
          bcast |-> TickDecision(n, textOk, imageOk).bcast])]

(* ------------------------- broadcast_message --------------------------- *)

\* network.rs:209: the keys of the registry
Keys(map) == {p \in Nodes : map[p] # NoConn}

NextPeer(todo) == IF todo = {} THEN {"none"} ELSE todo

\* network.rs:326, 332
failed_push(failed, node_id) == Append(failed, node_id)

Range(seq) == {seq[i] : i \in 1..Len(seq)}

\* remove_failed that empties the registry
remove_failed_all(map, failed) == [p \in Nodes |-> NoConn]

\* network.rs:341-343
remove_failed(map, failed) ==
    [p \in Nodes |-> IF p \in Range(failed) THEN NoConn ELSE map[p]]

\* unlock that keeps the guard
unlock_never(n) == regLock

\* network.rs:338: drop(connections) releases the registry lock
unlock(n) == [regLock EXCEPT ![n] = "free"]

\* network.rs:315-345: the loop head of the fan-out.  With a next peer the
\* call awaits its open_bi; at the end of the map the guard is dropped and
\* the call returns, or waits for the lock again to remove the failed peers.
FanOut(n, f, nxt) ==
    IF nxt # "none"
    THEN /\ bc' = [bc EXCEPT ![n] = [f EXCEPT !.cur = nxt, !.todo = f.todo \ {nxt}]]
         /\ pc' = [pc EXCEPT ![n] = "bc_open"]
         /\ regLock' = [regLock EXCEPT ![n] = "broadcast"]
         /\ UNCHANGED << last_text_content, last_content_type >>
    ELSE /\ regLock' = unlock(n)
         /\ IF f.failed_connections = <<>>
            THEN /\ bc' = [bc EXCEPT ![n] = [f EXCEPT !.cur = "none",
                                   !.final = Keys(connections[n]),
                                   !.returned = TRUE]]
                 /\ AfterBroadcast(n, f.message)
            ELSE /\ bc' = [bc EXCEPT ![n] = [f EXCEPT !.cur = "none"]]
                 /\ pc' = [pc EXCEPT ![n] = "bc_relock"]
                 /\ UNCHANGED << last_text_content, last_content_type >>

\* network.rs:312-315
broadcast_message_lock(n) ==
    /\ pc[n] = "bc_lock"
    /\ regLock[n] = "free"
    /\ \E nxt \in NextPeer(Keys(connections[n])) :
         FanOut(n, [bc[n] EXCEPT !.todo = Keys(connections[n]),
                                 !.snap = Keys(connections[n]),
                                 !.sess = connections[n]], nxt)
    /\ UNCHANGED << applied, pure, cli, clip, copies, sig, now, ticklog, connections,
                    message_sender, queue, conn, streams, acc, disc >>

\* network.rs:317, 330-333
broadcast_message_open_bi(n) ==
    LET f == bc[n]
        g == connections[n][f.cur]
    IN  /\ pc[n] = "bc_open"
        /\ IF conn[n][f.cur][g].live
           THEN /\ streams' = [streams EXCEPT ![n][f.cur][g] =
                                 Append(@, [data |-> <<>>, fin |-> FALSE])]
                /\ bc' = [bc EXCEPT ![n].attempted = @ \cup {f.cur},
                                     ![n].opens[f.cur] = @ + 1]
                /\ pc' = [pc EXCEPT ![n] = "bc_write"]
                /\ UNCHANGED << regLock, last_text_content, last_content_type >>
           ELSE /\ \E nxt \in NextPeer(f.todo) :
                     FanOut(n, [f EXCEPT
                         !.failed_connections = failed_push(@, f.cur),
                         !.attempted = @ \cup {f.cur},
                         !.opens[f.cur] = @ + 1,
                         !.io_failed = @ \cup {f.cur}], nxt)
                /\ UNCHANGED streams
        /\ UNCHANGED << applied, pure, cli, clip, copies, sig, now, ticklog, connections,
                        message_sender, queue, conn, acc, disc >>

\* network.rs:319-328
broadcast_message_write_all(n) ==
    LET f == bc[n]
        g == connections[n][f.cur]
        k == Len(streams[n][f.cur][g])
    IN  /\ pc[n] = "bc_write"
        /\ \E nxt \in NextPeer(f.todo) :
             IF conn[n][f.cur][g].live
             THEN /\ streams' = [streams EXCEPT ![n][f.cur][g][k] =
                                   [data |-> f.data, fin |-> TRUE]]
                  /\ FanOut(n, [f EXCEPT !.delivered = @ \cup {f.cur},
                                          !.writes[f.cur] = @ + 1], nxt)
             ELSE /\ FanOut(n, [f EXCEPT
                         !.failed_connections = failed_push(@, f.cur),
                         !.writes[f.cur] = @ + 1,
                         !.io_failed = @ \cup {f.cur}], nxt)
                  /\ UNCHANGED streams
        /\ UNCHANGED << applied, pure, cli, clip, copies, sig, now, ticklog, connections,
                        message_sender, queue, conn, acc, disc >>

\* network.rs:339-346
broadcast_message_cleanup(n) ==
    LET f == bc[n]
    IN  /\ pc[n] = "bc_relock"
        /\ regLock[n] = "free"
        /\ connections' = [connections EXCEPT ![n] =
                             remove_failed(@, f.failed_connections)]
        /\ bc' = [bc EXCEPT ![n].removed =
                    Keys(connections[n]) \ Keys(connections'[n]),
                  ![n].final = Keys(connections'[n]),
                  ![n].returned = TRUE]
        /\ AfterBroadcast(n, f.message)
        /\ UNCHANGED << applied, pure, cli, clip, copies, sig, now, ticklog, regLock,
                        message_sender, queue, conn, streams, acc, disc >>

(* --------------------------- the main task ----------------------------- *)

\* network.rs:230-232: the router of a launched device accepts connections
RouterUp(n) == pc[n] \notin {"off", "exited", "stopped", "killed"}

\* a connect can succeed: the far side listens (and the run's budget of
\* connections is not used up)
CanConnect(src, dst) == RouterUp(dst) /\ Len(conn[src][dst]) < MaxSessions

\* iroh Endpoint::connect: a new connection, and the accept handler the
\* far side's router spawns for it (network.rs:35-42)
OpenConnection(src, dst) ==
    /\ conn' = [conn EXCEPT ![src][dst] = Append(@, [live |-> TRUE])]
    /\ streams' = [streams EXCEPT ![src][dst] = Append(@, <<>>)]
    /\ acc' = [acc EXCEPT ![src][dst] =
                 Append(@, [state |-> "accept_bi", stream |-> 0, pos |-> 0,
                            reads |-> <<>>])]

\* network.rs:272, 392
insert(map, node_id, connection) == [map EXCEPT ![node_id] = connection]

\* main.rs:370, network.rs:259-276: the connect command.  A failed connect
\* ends the process (main.rs:58).
connect_to_peer(n, ok) ==
    LET ticket == cli[n].ticket
    IN  /\ pc[n] = "new"
        /\ cli[n].command = "connect"
        /\ regLock[n] = "free"
        /\ IF ok /\ CanConnect(n, ticket.node_id)
           THEN /\ OpenConnection(n, ticket.node_id)
                /\ connections' = [connections EXCEPT ![n] =
                     insert(@, ticket.node_id, Len(conn[n][ticket.node_id]) + 1)]
                /\ pc' = [pc EXCEPT ![n] = "setup"]
           ELSE /\ pc' = [pc EXCEPT ![n] = "exited"]
                /\ UNCHANGED << connections, conn, streams, acc >>
        /\ UNCHANGED << applied, pure, cli, clip, copies, last_text_content,
                        last_content_type, regLock, bc, message_sender,
                        queue, disc, sig, now, ticklog >>

\* network.rs:279-283 with main.rs:84-100, 249-293, 378-422: the handler is
\* installed, the message task (and with auto the discovery task) spawned,
\* and the polling loop entered.
setup_message_handler(n) ==
    /\ \/ pc[n] = "new" /\ cli[n].command \in {"start", "auto"}
       \/ pc[n] = "setup"
    /\ message_sender' = [message_sender EXCEPT ![n] = TRUE]
    /\ disc' = IF cli[n].command = "auto"
               THEN [disc EXCEPT ![n].pc = "next"]
               ELSE disc
    /\ pc' = [pc EXCEPT ![n] = "sleep"]
    /\ UNCHANGED << applied, pure, cli, clip, copies, last_text_content, last_content_type,
                    connections, regLock, bc, queue, conn, streams, acc,
                    sig, now, ticklog >>

\* main.rs:346-351: the select creates a ctrl_c() future (the first one
\* installs the process's interrupt handler), and awaits it for 10 ms; a
\* notification that reached that future breaks the loop.
check_exit_signal(n) ==
    /\ pc[n] = "select"
    /\ pc' = [pc EXCEPT ![n] = IF sig[n].pending THEN "shutdown" ELSE "sleep"]
    /\ sig' = [sig EXCEPT ![n].handler = TRUE, ![n].pending = FALSE]
    /\ bc' = [bc EXCEPT ![n] = IdleFrame]
    /\ UNCHANGED << applied, pure, cli, clip, copies, last_text_content,
                    last_content_type, now, ticklog >>
    /\ UNCHANGED netVars

\* main.rs:354, network.rs:450-456: the loop left, the router is shut down
\* and the process ends, and with it its tasks and connections.
shutdown(n) ==
    /\ pc[n] = "shutdown"
    /\ pc' = [pc EXCEPT ![n] = "stopped"]
    /\ disc' = [disc EXCEPT ![n].pc = "off"]
    /\ conn' = [s \in Nodes |-> [d \in Nodes |->
                 IF s = n \/ d = n
                 THEN [g \in 1..Len(conn[s][d]) |-> [live |-> FALSE]]
                 ELSE conn[s][d]]]
    /\ UNCHANGED << applied, pure, cli, clip, copies, last_text_content,
                    last_content_type, connections, regLock, bc,
                    message_sender, queue, streams, acc, sig, now, ticklog >>

(* --------------------------- the environment --------------------------- *)

ClipChange(n, v) ==
    /\ RouterUp(n)
    /\ clip[n] # v
    /\ clip' = [clip EXCEPT ![n] = v]
    /\ UNCHANGED << applied, pure, cli, pc, last_text_content, last_content_type, bc, sig,
                    now, ticklog >>
    /\ UNCHANGED netVars

\* the user copies something on device n
clipboard_change(n, v) ==
    /\ ClipChange(n, v)
    /\ UNCHANGED copies

\* the same, counted
user_copy(n, v) ==
    /\ copies[n] < MaxCopies
    /\ ClipChange(n, v)
    /\ copies' = [copies EXCEPT ![n] = @ + 1]

\* The user presses Ctrl+C on device n.  The ctrl_c() future of the select,
\* when one is awaited, takes the notification.  Otherwise no future
\* listens: before the first ctrl_c() call the interrupt has its default
\* effect and ends the process at once; after it, the installed handler
\* swallows the interrupt, and a ctrl_c() future created later does not
\* see it.
interrupt(n) ==
    /\ pc[n] \in {"sleep", "bc_lock", "bc_open", "bc_write", "bc_relock",
                  "select"}
    /\ IF pc[n] = "select"
       THEN /\ sig' = [sig EXCEPT ![n].pending = TRUE, ![n].raised = TRUE]
            /\ UNCHANGED << pc, disc, regLock >>
       ELSE IF sig[n].handler
       THEN /\ sig' = [sig EXCEPT ![n].raised = TRUE, ![n].missed = TRUE]
            /\ UNCHANGED << pc, disc, regLock >>
       ELSE /\ sig' = [sig EXCEPT ![n].raised = TRUE]
            /\ pc' = [pc EXCEPT ![n] = "killed"]
            /\ disc' = [disc EXCEPT ![n].pc = "off"]
            /\ regLock' = [regLock EXCEPT ![n] = "free"]
    /\ UNCHANGED << applied, pure, cli, clip, copies, last_text_content,
                    last_content_type, connections, bc, message_sender,
                    queue, conn, streams, acc, now, ticklog >>

\* the transport loses a connection (the peer went away, the link broke)
connection_lost(s, d, g) ==
    /\ g \in 1..Len(conn[s][d])
    /\ conn[s][d][g].live
    /\ conn' = [conn EXCEPT ![s][d][g].live = FALSE]
    /\ UNCHANGED << applied, pure, cli, pc, clip, copies, last_text_content,
                    last_content_type, connections, regLock, bc,
                    message_sender, queue, streams, acc, disc, sig, now,
                    ticklog >>

(* ------------------------ the discovery task --------------------------- *)

\* IsSelf that never recognises the local identity
IsSelf_never(n, d) == FALSE

\* network.rs:423, 377
IsSelf(n, d) == d = get_node_id(n)

\* contains_key that never finds the key
contains_key_never(map, node_id) == FALSE

\* network.rs:372, 428
contains_key(map, node_id) == map[node_id] # NoConn

\* network.rs:417-425, 439-441: the discovery stream yields an event: an
\* error (printed, network.rs:439-441), the local identity (skipped), or a
\* peer to check.  last records how the latest event naming a node ended.
discovery_next(n, d) ==
    /\ disc[n].pc = "next"
    /\ disc' = [disc EXCEPT ![n] =
         IF d = "error" THEN @
         ELSE IF IsSelf(n, d) THEN [@ EXCEPT !.last = "self"]
         ELSE [@ EXCEPT !.pc = "check", !.node_id = d]]
    /\ UNCHANGED << applied, pure, cli, pc, clip, copies, last_text_content,
                    last_content_type, connections, regLock, bc,
                    message_sender, queue, conn, streams, acc, sig, now,
                    ticklog >>

\* network.rs:428-432
start_auto_discovery_check(n) ==
    /\ disc[n].pc = "check"
    /\ regLock[n] = "free"
    /\ disc' = [disc EXCEPT ![n] =
         IF contains_key(connections[n], disc[n].node_id)
         THEN [@ EXCEPT !.pc = "next", !.last = "connected"]
         ELSE [@ EXCEPT !.pc = "try"]]
    /\ UNCHANGED << applied, pure, cli, pc, clip, copies, last_text_content,
                    last_content_type, connections, regLock, bc,
                    message_sender, queue, conn, streams, acc, sig, now,
                    ticklog >>

\* network.rs:370-387: the checks of try_connect_to_clipboard_node, up to
\* the call of connect
try_connect_check(n) ==
    LET d == disc[n].node_id
    IN  /\ disc[n].pc = "try"
        /\ regLock[n] = "free"
        /\ disc' = [disc EXCEPT ![n] =
             IF contains_key(connections[n], d)
             THEN [@ EXCEPT !.pc = "next", !.last = "connected"]
             ELSE IF IsSelf(n, d)
             THEN [@ EXCEPT !.pc = "next", !.last = "self"]
             ELSE [@ EXCEPT !.pc = "connect"]]
        /\ UNCHANGED << applied, pure, cli, pc, clip, copies, last_text_content,
                        last_content_type, connections, regLock, bc,
                        message_sender, queue, conn, streams, acc, sig, now,
                        ticklog >>

\* on_connect_error that ends the discovery task
on_connect_error_fatal(d) == [d EXCEPT !.pc = "off", !.last = "failed"]

\* network.rs:395-399, 435-437: the error of a connect is printed and
\* dropped, and the loop takes the next event
on_connect_error(d) == [d EXCEPT !.pc = "next", !.last = "failed"]

\* network.rs:387-400: the outcome of connect
try_connect_connect(n, ok) ==
    LET d == disc[n].node_id
    IN  /\ disc[n].pc = "connect"
        /\ IF ok /\ CanConnect(n, d)
           THEN /\ OpenConnection(n, d)
                /\ disc' = [disc EXCEPT ![n].pc = "insert",
                                        ![n].connection = Len(conn[n][d]) + 1]
           ELSE /\ disc' = [disc EXCEPT ![n] = on_connect_error(@)]
                /\ UNCHANGED << conn, streams, acc >>
        /\ UNCHANGED << applied, pure, cli, pc, clip, copies, last_text_content,
                        last_content_type, connections, regLock, bc,
                        message_sender, queue, sig, now, ticklog >>

\* network.rs:392-393
try_connect_insert(n) ==
    LET d == disc[n].node_id
    IN  /\ disc[n].pc = "insert"
        /\ regLock[n] = "free"
        /\ connections' = [connections EXCEPT ![n] =
                             insert(@, d, disc[n].connection)]
        /\ disc' = [disc EXCEPT ![n].pc = "next", ![n].connection = NoConn,
                                ![n].last = "inserted"]
        /\ bc' = IF pc[n] = "bc_relock"
                 THEN [bc EXCEPT ![n].inserted = @ \cup {d}]
                 ELSE bc
        /\ UNCHANGED << applied, pure, cli, pc, clip, copies, last_text_content,
                        last_content_type, regLock, message_sender, queue,
                        conn, streams, acc, sig, now, ticklog >>

(* ------------------------ the accept handler --------------------------- *)

\* network.rs:42-49: accept_bi yields the first stream the peer opened, or
\* fails once the connection is lost.
accept_bi(s, d, g) ==
    /\ g \in 1..Len(conn[s][d])
    /\ acc[s][d][g].state = "accept_bi"
    /\ IF Len(streams[s][d][g]) >= 1 /\ streams[s][d][g][1].fin
       THEN acc' = [acc EXCEPT ![s][d][g].state = "read", ![s][d][g].stream = 1]
       ELSE /\ ~conn[s][d][g].live
            /\ acc' = [acc EXCEPT ![s][d][g].state = "done"]
    /\ UNCHANGED << applied, pure, cli, pc, clip, copies, last_text_content,
                    last_content_type, connections, regLock, bc,
                    message_sender, queue, conn, streams, disc, sig, now,
                    ticklog >>

\* network.rs:69-71
forward(n, message) ==
    IF message_sender[n] THEN Append(queue[n], message) ELSE queue[n]

\* after_decode that leaves the read loop on a failed decode
after_decode_break(result) == IF result.ok THEN "read" ELSE "done"

\* network.rs:58-76: both arms of the match fall through to the next read
after_decode(result) == "read"

\* network.rs:53-79: one read of the accepted stream.  A read of k tokens is
\* decoded on its own; at the stream's end the loop is left and the handler
\* returns.
accept_read(s, d, g, k) ==
    LET data == streams[s][d][g][acc[s][d][g].stream].data
        pos == acc[s][d][g].pos
        chunk == SubSeq(data, pos + 1, pos + k)
        m == from_bytes(chunk)
    IN  /\ g \in 1..Len(conn[s][d])
        /\ acc[s][d][g].state = "read"
        /\ IF pos < Len(data)
           THEN /\ k \in 1..Min(BufSize, Len(data) - pos)
                /\ acc' = [acc EXCEPT ![s][d][g].pos = pos + k,
                                      ![s][d][g].state = after_decode(m),
                                      ![s][d][g].reads = Append(@, m)]
                /\ queue' = IF m.ok THEN [queue EXCEPT ![d] = forward(d, m.value)]
                            ELSE queue
           ELSE /\ k = 0
                /\ acc' = [acc EXCEPT ![s][d][g].state = "done"]
                /\ UNCHANGED queue
        /\ UNCHANGED << applied, pure, cli, pc, clip, copies, last_text_content,
                        last_content_type, connections, regLock, bc,
                        message_sender, conn, streams, disc, sig, now,
                        ticklog >>

(* ------------------------- the message task ---------------------------- *)

\* recv that yields the newest queued message
recv_newest(q) == q[Len(q)]

\* main.rs:263: message_receiver.recv() yields the oldest queued message
recv(q) == Head(q)

\* main.rs:262-293: the next queued message is written to the clipboard;
\* ok is the outcome of the clipboard write.
message_task_recv(n, ok) ==
    /\ RouterUp(n)
    /\ message_sender[n]
    /\ queue[n] # <<>>
    /\ queue' = [queue EXCEPT ![n] = Tail(@)]
    /\ clip' = IF ok THEN [clip EXCEPT ![n] = set_clipboard(recv(queue[n]).content)]
               ELSE clip
    /\ applied' = [applied EXCEPT ![n] =
                      Append(@, [message |-> recv(queue[n]), ok |-> ok])]
    /\ UNCHANGED << pure, cli, pc, copies, last_text_content, last_content_type,
                    connections, regLock, bc, message_sender, conn, streams,
                    acc, disc, sig, now, ticklog >>

(* ------------------------------- Init ---------------------------------- *)

\* main.rs:347: no ctrl_c() called yet, no interrupt raised
NoSignal == [handler |-> FALSE, pending |-> FALSE, raised |-> FALSE,
             missed |-> FALSE]

\* no pure function is under examination
NoPure == [op |-> "none"]

NoTicket == [node_id |-> "none", addresses |-> <<>>]
Off == [command |-> "off", ticket |-> NoTicket]
Start == [command |-> "start", ticket |-> NoTicket]
Auto == [command |-> "auto", ticket |-> NoTicket]
Connect(peer) == [command |-> "connect", ticket |-> generate_ticket(peer)]

\* The devices as launched with the command lines cl: each launched device
\* has bound its endpoint and spawned its router (network.rs:214-240).
InitDevices(cl) ==
    /\ applied = [n \in Nodes |-> <<>>]
    /\ cli = cl
    /\ pc = [n \in Nodes |-> IF cl[n].command = "off" THEN "off" ELSE "new"]
    /\ clip = [n \in Nodes |-> ClipEmpty]
    /\ copies = [n \in Nodes |-> 0]
    /\ last_text_content = [n \in Nodes |-> ""]
    /\ last_content_type = [n \in Nodes |-> "Empty"]
    /\ connections = [n \in Nodes |-> [p \in Nodes |-> NoConn]]
    /\ regLock = [n \in Nodes |-> "free"]
    /\ bc = [n \in Nodes |-> IdleFrame]
    /\ message_sender = [n \in Nodes |-> FALSE]
    /\ queue = [n \in Nodes |-> <<>>]
    /\ conn = [s \in Nodes |-> [d \in Nodes |-> <<>>]]
    /\ streams = [s \in Nodes |-> [d \in Nodes |-> <<>>]]
    /\ acc = [s \in Nodes |-> [d \in Nodes |-> <<>>]]
    /\ disc = [n \in Nodes |-> [pc |-> "off", node_id |-> "none",
                                connection |-> NoConn, last |-> "none"]]
    /\ sig = [n \in Nodes |-> NoSignal]
    /\ now = 0
    /\ ticklog = [n \in Nodes |-> <<>>]

InitWith(cl) == pure = NoPure /\ InitDevices(cl)

(* ---------------- the detector specification: SpecDetector ------------- *)

\* what the user may put on the clipboard
DetectorClips ==
    {ClipEmpty, ClipText(""), ClipText("a"), ClipText("b"), ClipImage(Img1)}

\* Device A runs `start` and polls its clipboard while the user changes it;
\* an image read may fail.  No peer ever connects out of a `start` device,
\* so its registry stays empty and a broadcast returns at once.
DetectorInit ==
    InitWith([n \in Nodes |-> IF n = "A" THEN Start ELSE Off])

DetectorNext ==
    \/ setup_message_handler("A")
    \/ \E v \in DetectorClips : clipboard_change("A", v)
    \/ \E imageOk \in BOOLEAN : poll_clipboard_logged("A", TRUE, imageOk)
    \/ broadcast_message_lock("A")
    \/ check_exit_signal("A")

SpecDetector == DetectorInit /\ [][DetectorNext]_vars

(* --------------------- claims about the detector ----------------------- *)

ObsSeq(L) == [i \in 1..Len(L) |-> L[i].obs]
BcastTicks(L) == {i \in 1..Len(L) : L[i].bcast}

ObsEmpty == [type |-> "Empty", text |-> "", ok |-> TRUE]
ObsText(t) == [type |-> "Text", text |-> t, ok |-> TRUE]
ObsImage == [type |-> "Image", text |-> "", ok |-> TRUE]

TextEmptyOnly(L) == \A i \in 1..Len(L) : L[i].obs.type \in {"Text", "Empty"}

\* last_text and last_content_type after the first i ticks of L, as the
\* specification words them: the last broadcast text, cleared by an Empty
\* tick that follows a non-Empty last_content_type.
RECURSIVE RefAfter(_, _)
RefAfter(L, i) ==
    IF i = 0 THEN [text |-> "", type |-> "Empty"]
    ELSE LET prev == RefAfter(L, i - 1)
             o == L[i].obs
         IN  IF o.type = "Text" /\ o.text # "" /\ o.text # prev.text
             THEN [text |-> o.text, type |-> "Text"]
             ELSE IF o.type = "Empty" /\ prev.type # "Empty"
             THEN [text |-> "", type |-> "Empty"]
             ELSE prev

\* C3: over ticks that observe only Text and Empty, a tick broadcasts iff
\* its text is non-empty and differs from last_text (the last broadcast
\* text, cleared by an Empty tick after a non-Empty type); an Empty tick
\* never broadcasts; and Text a, Text a, Text b, Empty, Text b broadcasts
\* exactly at ticks 1, 3 and 5.
C3_TextDedup ==
    LET L == ticklog["A"]
    IN  TextEmptyOnly(L) =>
          /\ \A i \in 1..Len(L) :
                /\ L[i].prev_text = RefAfter(L, i - 1).text
                /\ L[i].bcast <=> /\ L[i].obs.type = "Text"
                                  /\ L[i].obs.text # ""
                                  /\ L[i].obs.text # RefAfter(L, i - 1).text
          /\ ObsSeq(L) = << ObsText("a"), ObsText("a"), ObsText("b"),
                            ObsEmpty, ObsText("b") >>
                => BcastTicks(L) = {1, 3, 5}

C3_Witness ==
    /\ ObsSeq(ticklog["A"]) = << ObsText("a"), ObsText("a"), ObsText("b"),
                                 ObsEmpty, ObsText("b") >>
    /\ BcastTicks(ticklog["A"]) = {1, 3, 5}
    /\ pc["A"] = "select"
    /\ last_text_content["A"] = "b"

AllReadsOk(L) == \A i \in 1..Len(L) : L[i].obs.ok
NoBlankText(L) ==
    \A i \in 1..Len(L) : L[i].obs.type = "Text" => L[i].obs.text # ""

\* C4: over ticks mixing Text, Image and Empty, a tick broadcasts iff the
\* clipboard holds non-empty content that differs from what the previous
\* tick observed.
C4_OncePerDistinctChange ==
    LET L == ticklog["A"]
        before(i) == IF i = 1 THEN ObsEmpty ELSE L[i - 1].obs
    IN  (AllReadsOk(L) /\ NoBlankText(L)) =>
          \A i \in 1..Len(L) :
             L[i].bcast <=> (L[i].obs.type # "Empty" /\ L[i].obs # before(i))

\* C5: an Image tick broadcasts only if last_content_type is not Image at
\* that tick and the image read succeeds; once the broadcast has returned
\* last_content_type is Image; and in a run of Image ticks after an image
\* broadcast no later tick broadcasts.
C5_ImageDedup ==
    LET L == ticklog["A"]
        n == Len(L)
    IN  /\ \A i \in 1..n :
             (L[i].obs.type = "Image" /\ L[i].bcast) =>
                /\ L[i].prev_type # "Image"
                /\ L[i].obs.ok
                /\ i < n => L[i + 1].prev_type = "Image"
                /\ (i = n /\ pc["A"] \in {"select", "sleep"})
                      => last_content_type["A"] = "Image"
        /\ \A i \in 1..n : \A j \in (i + 1)..n :
             (/\ L[i].bcast
              /\ \A k \in i..j : L[k].obs.type = "Image")
             => ~L[j].bcast

C5_Witness ==
    LET L == ticklog["A"]
    IN  \E i \in 1..(Len(L) - 1) :
           /\ L[i].obs = ObsImage /\ L[i].bcast
           /\ L[i + 1].obs = ObsImage /\ ~L[i + 1].bcast
           /\ last_content_type["A"] = "Image"

(* --------------- the read-failure specification: SpecReads ------------- *)

\* what the user may put on the clipboard
ReadClips == {ClipEmpty, ClipText("a"), ClipImage(Img1)}

\* Device A runs `start` and polls its clipboard while the user changes it;
\* the read of the text and the read of the image may each fail.
ReadsInit ==
    InitWith([n \in Nodes |-> IF n = "A" THEN Start ELSE Off])

ReadsNext ==
    \/ setup_message_handler("A")
    \/ \E v \in ReadClips : clipboard_change("A", v)
    \/ \E textOk \in BOOLEAN : \E imageOk \in BOOLEAN :
          poll_clipboard_logged("A", textOk, imageOk)
    \/ broadcast_message_lock("A")
    \/ check_exit_signal("A")

SpecReads == ReadsInit /\ [][ReadsNext]_vars

\* C22: a tick whose clipboard read failed starts no broadcast and leaves
\* last_text and last_content_type as they were: the next tick finds them
\* unchanged, and after the newest tick the loop stands at its select or
\* its sleep with them unchanged.
C22_ReadFailureLeavesDetector ==
    LET L == ticklog["A"]
        n == Len(L)
    IN  \A i \in 1..n :
           ~L[i].obs.ok =>
              /\ ~L[i].bcast
              /\ i < n => /\ L[i + 1].prev_type = L[i].prev_type
                          /\ L[i + 1].prev_text = L[i].prev_text
              /\ i = n => /\ pc["A"] \in {"select", "sleep"}
                          /\ last_content_type["A"] = L[i].prev_type
                          /\ last_text_content["A"] = L[i].prev_text

\* a failed text read and a failed image read, each followed by a tick
\* whose read succeeded and which broadcast
C22_Witness ==
    LET L == ticklog["A"]
    IN  /\ Len(L) = 4
        /\ L[1].obs = [type |-> "Text", text |-> "", ok |-> FALSE]
        /\ L[2].obs = ObsText("a") /\ L[2].bcast
        /\ L[3].obs = [type |-> "Image", text |-> "", ok |-> FALSE]
        /\ L[3].prev_type = "Text"
        /\ L[4].obs = ObsImage /\ L[4].bcast
        /\ pc["A"] = "select"

(* ---------------- the discovery specification: Spec -------------------- *)

\* what the user of A copies
NetClips == {ClipText("a")}

\* Device A runs `auto`; B, C and D are launched and can be discovered and
\* connected to.  A's discovery stream may name any device, A included.
NetInit ==
    InitWith([n \in Nodes |-> IF n = "A" THEN Auto ELSE Start])

Next ==
    \/ setup_message_handler("A")
    \/ \E v \in NetClips : clipboard_change("A", v)
    \/ poll_clipboard("A", TRUE, TRUE)
    \/ broadcast_message_lock("A")
    \/ broadcast_message_open_bi("A")
    \/ broadcast_message_write_all("A")
    \/ broadcast_message_cleanup("A")
    \/ check_exit_signal("A")
    \/ \E d \in Nodes \cup {"error"} : discovery_next("A", d)
    \/ start_auto_discovery_check("A")
    \/ try_connect_check("A")
    \/ \E ok \in BOOLEAN : try_connect_connect("A", ok)
    \/ try_connect_insert("A")
    \/ \E d \in Nodes : \E g \in 1..MaxSessions : connection_lost("A", d, g)

Spec == NetInit /\ [][Next]_vars

(* ------------- claims about the broadcast and the discovery ------------ *)

\* The frame of a broadcast records, beside the code's locals: snap, the
\* registry when the fan-out took the lock; attempted, delivered and
\* io_failed, the peers whose open_bi was called, whose write completed and
\* whose open_bi or write_all failed; removed, the peers the cleanup took
\* out; inserted, the peers the discovery task put in between the fan-out's
\* release of the lock and the return; final, the registry at the return;
\* opens and writes, how often open_bi and write_all were called per peer;
\* sess, the sessions of the registry when the fan-out took the lock.

\* C1 as stated: when a call of broadcast_message returns, every peer of
\* the registry at fan-out start was attempted, every peer whose open and
\* write did not fail was delivered to, and the registry equals the one at
\* fan-out start minus exactly the failed peers.
C1_RegistryEqualsStartMinusFailed ==
    LET f == bc["A"]
    IN  f.returned =>
          /\ f.attempted = f.snap
          /\ f.delivered = f.snap \ f.io_failed
          /\ f.final = f.snap \ f.io_failed

\* C1 as amended: the same, the registry at the return being the one at
\* fan-out start minus exactly the failed peers, plus the peers the
\* discovery task inserted after the fan-out released the lock; the peers
\* removed are exactly the failed ones, and each delivered peer's session
\* holds a finished stream with the message's bytes.
C1_BroadcastIsolation ==
    LET f == bc["A"]
    IN  f.returned =>
          /\ f.attempted = f.snap
          /\ f.delivered = f.snap \ f.io_failed
          /\ f.removed = f.io_failed
          /\ f.final = (f.snap \ f.io_failed) \cup f.inserted
          /\ f.inserted \cap f.snap = {}
          /\ \A p \in f.delivered :
                \E k \in 1..Len(streams["A"][p][connections["A"][p]]) :
                   streams["A"][p][connections["A"][p]][k] =
                      [data |-> f.data, fin |-> TRUE]

C1_Witness ==
    LET f == bc["A"]
    IN  /\ f.returned
        /\ f.snap = {"B", "C", "D"}
        /\ f.io_failed = {"B"}
        /\ f.delivered = {"C", "D"}
        /\ f.final = {"C", "D"}
        /\ Keys(connections["A"]) = {"C", "D"}

\* C2: no open_bi and no write_all of a broadcast happens while the
\* registry lock is held.
C2_NoIoUnderLock ==
    \A n \in Nodes : pc[n] \in {"bc_open", "bc_write"} => regLock[n] = "free"

\* C6: a discovery event for a peer that is in the registry ends without a
\* connect attempt and leaves the registry unchanged; a connect is attempted,
\* and a connection opened, only to a peer that is not in the registry.
C6_DiscoveryIdempotent ==
    [][\A n \in Nodes :
         /\ (/\ disc[n].pc \in {"check", "try"}
             /\ connections[n][disc[n].node_id] # NoConn
             /\ disc'[n] # disc[n])
            => /\ disc'[n].pc = "next"
               /\ connections'[n] = connections[n]
               /\ conn'[n] = conn[n]
         /\ (disc'[n].pc = "connect" /\ disc[n].pc # "connect")
            => connections[n][disc'[n].node_id] = NoConn
         /\ \A d \in Nodes :
               Len(conn'[n][d]) > Len(conn[n][d]) => connections[n][d] = NoConn
      ]_vars

C6_Witness ==
    /\ disc["A"].last = "connected"
    /\ disc["A"].pc = "next"
    /\ disc["A"].node_id = "B"
    /\ connections["A"]["B"] # NoConn
    /\ Len(conn["A"]["B"]) = 1

\* C7: a discovery event naming the local identity leads to no connect
\* attempt, no connection and no registry entry.
C7_NoSelfConnect ==
    \A n \in Nodes :
       /\ connections[n][n] = NoConn
       /\ conn[n][n] = <<>>
       /\ disc[n].pc \in {"check", "try", "connect", "insert"}
             => disc[n].node_id # n

C7_Witness ==
    /\ disc["A"].last = "self"
    /\ disc["A"].pc = "next"
    /\ Keys(connections["A"]) # {}

\* C14: a failed connect to a discovered peer leaves the registry and the
\* connections as they were and returns the discovery task to its loop
\* with nothing kept of the attempt; whenever the task decides about a peer
\* that is neither registered nor the local node, it attempts a connect,
\* whatever happened before.
C14_ConnectFailureNonFatal ==
    [][\A n \in Nodes :
          /\ (disc[n].pc = "connect" /\ disc'[n].pc # "insert"
               /\ disc'[n] # disc[n]) =>
                /\ disc'[n] = [pc |-> "next", node_id |-> disc[n].node_id,
                               connection |-> NoConn, last |-> "failed"]
                /\ connections' = connections
                /\ conn' = conn
                /\ pc' = pc
          /\ (disc[n].pc = "try" /\ disc'[n] # disc[n]
               /\ connections[n][disc[n].node_id] = NoConn
               /\ disc[n].node_id # n) =>
                disc'[n].pc = "connect"]_vars

\* B's connect failed and, C and D being registered, the next event naming
\* B led to a fresh attempt
C14_Witness ==
    /\ disc["A"].pc = "connect"
    /\ disc["A"].node_id = "B"
    /\ disc["A"].last = "failed"
    /\ Keys(connections["A"]) = {"C", "D"}

\* C16: while a broadcast waits for the open_bi or write_all of a peer, the
\* discovery task can still do its registry steps: the check of a
\* discovered peer and the insertion of a new connection.
C16_SlowPeerIsolation ==
    \A n \in Nodes :
       pc[n] \in {"bc_open", "bc_write"} =>
          /\ disc[n].pc = "check" => ENABLED start_auto_discovery_check(n)
          /\ disc[n].pc = "try" => ENABLED try_connect_check(n)
          /\ disc[n].pc = "insert" => ENABLED try_connect_insert(n)

\* the streams n has opened to p, over all its connections to p
StreamsOpened(n, p) ==
    UNION {{<< g, k >> : k \in 1..Len(streams[n][p][g])} :
              g \in 1..Len(streams[n][p])}

\* C21: a call of broadcast_message calls open_bi at most once and
\* write_all at most once per peer, and for registered peers only; when the
\* call returns the detector records the message's text and type, whatever
\* failed; a tick that reads the recorded text starts no broadcast; and so
\* the one text the user of A copies is sent to no peer twice, not even to
\* a peer that failed and was registered again.
C21_AtMostOnceNoRetry ==
    /\ [](\A n \in Nodes : \A p \in Nodes :
            /\ bc[n].opens[p] <= 1
            /\ bc[n].writes[p] <= bc[n].opens[p]
            /\ bc[n].opens[p] = 1 => p \in bc[n].snap)
    /\ [][\A n \in Nodes :
            /\ (bc'[n].returned /\ ~bc[n].returned) =>
                  /\ last_content_type'[n] = bc[n].message.content.tag
                  /\ bc[n].message.content.tag = "Text" =>
                        last_text_content'[n] = bc[n].message.content.text
            /\ (/\ pc[n] = "sleep" /\ pc'[n] # "sleep"
                /\ clip[n].type = "Text"
                /\ clip[n].text = last_text_content[n]) =>
                  pc'[n] = "select"]_vars
    /\ [](\A p \in Nodes : Cardinality(StreamsOpened("A", p)) <= 1)

\* the broadcast of "a" failed for B, which was pruned and registered again
\* over a new connection; later ticks read "a" and nothing was sent to B
C21_Witness ==
    /\ pc["A"] = "select"
    /\ bc["A"] = IdleFrame
    /\ clip["A"] = ClipText("a")
    /\ last_text_content["A"] = "a"
    /\ Len(conn["A"]["B"]) = 2
    /\ connections["A"]["B"] = 2
    /\ conn["A"]["B"][2].live
    /\ StreamsOpened("A", "B") = {}
    /\ StreamsOpened("A", "C") # {}

\* C26: the removal at the end of a broadcast takes out of the registry
\* only sessions the fan-out held and saw fail, and none that the discovery
\* task inserted after the fan-out released the lock: those are sessions of
\* peers the fan-out did not hold, and they are in the registry at the
\* return.
C26_PruneKeepsFreshSession ==
    [][\A n \in Nodes :
          (pc[n] = "bc_relock" /\ pc'[n] # "bc_relock") =>
             /\ \A p \in Nodes :
                   (connections[n][p] # NoConn /\ connections'[n][p] = NoConn) =>
                      /\ p \in bc[n].io_failed
                      /\ connections[n][p] = bc[n].sess[p]
                      /\ ~conn[n][p][connections[n][p]].live
             /\ \A p \in bc[n].inserted :
                   /\ bc[n].sess[p] = NoConn
                   /\ connections'[n][p] = connections[n][p]
                   /\ connections'[n][p] # NoConn]_vars

\* B failed and was removed, while C, inserted during the window, was kept
C26_Witness ==
    /\ bc["A"].returned
    /\ bc["A"].removed = {"B"}
    /\ bc["A"].inserted = {"C"}
    /\ connections["A"]["B"] = NoConn
    /\ connections["A"]["C"] # NoConn

(* --------------- the two-device specification: SpecPair ---------------- *)

PairNodes == {"A", "B"}

\* what the users of A and B copy
PairClips == {ClipText("hello"), ClipText("b")}

\* the length of an encoded message
MessageLen == Len(to_bytes(NoMessage))

\* Device A runs `start`; device B runs `connect` with A's ticket.  Each
\* message travels in one read (0: the read that meets the end of stream).
PairInit ==
    InitWith([n \in Nodes |-> IF n = "A" THEN Start
                              ELSE IF n = "B" THEN Connect("A") ELSE Off])

PairNext ==
    \E n \in PairNodes :
       \/ \E ok \in BOOLEAN : connect_to_peer(n, ok)
       \/ setup_message_handler(n)
       \/ \E v \in PairClips : user_copy(n, v)
       \/ poll_clipboard(n, TRUE, TRUE)
       \/ broadcast_message_lock(n)
       \/ broadcast_message_open_bi(n)
       \/ broadcast_message_write_all(n)
       \/ broadcast_message_cleanup(n)
       \/ check_exit_signal(n)
       \/ \E d \in PairNodes : \E g \in 1..MaxSessions :
             \/ accept_bi(n, d, g)
             \/ \E k \in {0, MessageLen} : accept_read(n, d, g, k)
             \/ connection_lost(n, d, g)
       \/ \E ok \in BOOLEAN : message_task_recv(n, ok)

SpecPair == PairInit /\ [][PairNext]_vars

\* C8: once B has connected to A with A's ticket, B's registry holds an
\* entry for A and A's registry holds an entry for B.
C8_BothRegistriesHoldSession ==
    \A a \in Nodes : \A b \in Nodes :
       (/\ connections[b][a] # NoConn
        /\ conn[b][a][connections[b][a]].live)
       => connections[a][b] # NoConn

\* C9: with B connected to A over a live connection, a broadcast of the
\* text "hello" by A's detector delivers it to B.
C9_HelloBroadcastReachesB ==
    LET f == bc["A"]
    IN  (/\ f.returned
         /\ f.message.content = ContentText("hello")
         /\ connections["B"]["A"] # NoConn
         /\ conn["B"]["A"][connections["B"]["A"]].live)
        => "B" \in f.delivered

\* C10: the accept handler of a live connection has not returned while a
\* finished stream of that connection is unserved: every stream the peer
\* opened and wrote is read.
C10_EveryStreamServed ==
    \A s \in Nodes : \A d \in Nodes : \A g \in 1..Len(conn[s][d]) :
       \A k \in 1..Len(streams[s][d][g]) :
          (/\ conn[s][d][g].live
           /\ streams[s][d][g][k].fin
           /\ acc[s][d][g].state = "done")
          => k <= acc[s][d][g].stream

(* ---------------- the inbound specification: SpecInbound --------------- *)

\* Messages and bytes a connected peer writes on a stream it opened.
InMsg1 == new_text("x", "B", 0)
InMsg2 == new_text("y", "B", 0)
Junk == << [k |-> "junk", v |-> NoMessage] >>

\* one message; two messages; junk, then a message; a truncated message
InboundPayloads ==
    { to_bytes(InMsg1),
      to_bytes(InMsg1) \o to_bytes(InMsg2),
      Junk \o to_bytes(InMsg1),
      SubSeq(to_bytes(InMsg1), 1, MessageLen - 1) }

\* the longest of them
InboundMaxLen == MessageLen + MessageLen

\* The peer s opens its first stream on its g-th connection to d, writes
\* payload and finishes the stream.
peer_stream(s, d, g, payload) ==
    /\ g \in 1..Len(conn[s][d])
    /\ conn[s][d][g].live
    /\ streams[s][d][g] = <<>>
    /\ streams' = [streams EXCEPT ![s][d][g] =
                     << [data |-> payload, fin |-> TRUE] >>]
    /\ UNCHANGED << applied, pure, cli, pc, clip, copies, last_text_content,
                    last_content_type, connections, regLock, bc,
                    message_sender, queue, conn, acc, disc, sig, now,
                    ticklog >>

\* Device A runs `start`; a peer B connects to it and writes one stream,
\* which the transport hands to A's accept handler in reads of any size.
InboundInit ==
    InitWith([n \in Nodes |-> IF n = "A" THEN Start
                              ELSE IF n = "B" THEN Connect("A") ELSE Off])

InboundNext ==
    \/ \E ok \in BOOLEAN : connect_to_peer("B", ok)
    \/ setup_message_handler("A")
    \/ \E payload \in InboundPayloads : peer_stream("B", "A", 1, payload)
    \/ accept_bi("B", "A", 1)
    \/ \E k \in 0..InboundMaxLen : accept_read("B", "A", 1, k)
    \/ \E ok \in BOOLEAN : message_task_recv("A", ok)
    \/ connection_lost("B", "A", 1)

SpecInbound == InboundInit /\ [][InboundNext]_vars

\* the messages among the results of a handler's reads, in the order read
OkValues(reads) ==
    LET oks == SelectSeq(reads, LAMBDA r : r.ok)
    IN  [i \in 1..Len(oks) |-> oks[i].value]

IsSuffix(a, b) ==
    Len(a) <= Len(b) /\ a = SubSeq(b, Len(b) - Len(a) + 1, Len(b))

\* C11: a stream whose whole payload is one encoded message, read to its
\* end by the accept handler, yields that message exactly once, however
\* the payload was split into reads.
C11_WholeStreamDecoded ==
    \A s \in Nodes : \A d \in Nodes : \A g \in 1..Len(acc[s][d]) :
       LET a == acc[s][d][g]
           data == streams[s][d][g][1].data
       IN  (/\ a.state = "done"
            /\ a.stream = 1
            /\ a.pos = Len(data)
            /\ from_bytes(data).ok)
           => OkValues(a.reads) = << from_bytes(data).value >>

\* C12: a read whose bytes fail to decode forwards nothing, leaves the
\* handler in its read loop and the connection as it was; a read whose
\* bytes are a valid message is decoded and forwarded whatever failed before.
C12_DecodeFailureRecoverable ==
    [][\A s \in Nodes : \A d \in Nodes : \A g \in 1..Len(acc[s][d]) :
          LET a == acc[s][d][g]
              a2 == acc'[s][d][g]
              r == a2.reads[Len(a2.reads)]
          IN  Len(a2.reads) = Len(a.reads) + 1 =>
                /\ r = from_bytes(SubSeq(streams[s][d][g][a.stream].data,
                                         a.pos + 1, a2.pos))
                /\ ~r.ok => /\ queue'[d] = queue[d]
                            /\ a2.state = "read"
                            /\ conn'[s][d][g] = conn[s][d][g]
                /\ (r.ok /\ message_sender[d]) =>
                            /\ queue'[d] = Append(queue[d], r.value)
                            /\ a2.state = "read"]_vars

\* a failed decode, then a valid message decoded and forwarded
C12_Witness ==
    /\ Len(acc["B"]["A"]) = 1
    /\ acc["B"]["A"][1].reads = << from_bytes(Junk), from_bytes(to_bytes(InMsg1)) >>
    /\ queue["A"] = << InMsg1 >>
    /\ conn["B"]["A"][1].live

\* C13: with one inbound connection and no local copies, the messages the
\* message task has taken followed by those still queued are the messages
\* the handler decoded since the queue was installed, in the order read;
\* the clipboard holds the newest message whose clipboard write succeeded.
C13_InboundOrder ==
    \A n \in Nodes :
       LET taken == [i \in 1..Len(applied[n]) |-> applied[n][i].message]
           written == SelectSeq(applied[n], LAMBDA e : e.ok)
       IN  /\ \A s \in Nodes : \A g \in 1..Len(acc[s][n]) :
                IsSuffix(taken \o queue[n], OkValues(acc[s][n][g].reads))
           /\ clip[n] = IF written = <<>> THEN ClipEmpty
                        ELSE set_clipboard(written[Len(written)].message.content)

\* a burst of two messages, applied in order
C13_Witness ==
    /\ applied["A"] = << [message |-> InMsg1, ok |-> TRUE],
                         [message |-> InMsg2, ok |-> TRUE] >>
    /\ queue["A"] = <<>>
    /\ clip["A"] = ClipText("y")

\* C23: every message an accept handler of device n has decoded is among
\* the messages n's message task has taken or n's queue still holds,
\* whether the handler decoded it before or after the queue was installed.
C23_NoInboundLoss ==
    \A n \in Nodes :
       LET taken == [i \in 1..Len(applied[n]) |-> applied[n][i].message]
       IN  \A s \in Nodes : \A g \in 1..Len(acc[s][n]) :
              Range(OkValues(acc[s][n][g].reads)) \subseteq Range(taken \o queue[n])

(* ------------------ the fair specification: SpecLive ------------------- *)

\* what the discovery stream of A yields
LiveEvents == {"A", "B", "error"}

\* Device A runs `auto`; device B runs `start` and is discovered by A.
LiveInit ==
    InitWith([n \in Nodes |-> IF n = "A" THEN Auto
                              ELSE IF n = "B" THEN Start ELSE Off])

LiveNext ==
    \/ setup_message_handler("A")
    \/ \E v \in NetClips : clipboard_change("A", v)
    \/ poll_clipboard("A", TRUE, TRUE)
    \/ broadcast_message_lock("A")
    \/ broadcast_message_open_bi("A")
    \/ broadcast_message_write_all("A")
    \/ broadcast_message_cleanup("A")
    \/ check_exit_signal("A")
    \/ interrupt("A")
    \/ shutdown("A")
    \/ \E d \in LiveEvents : discovery_next("A", d)
    \/ start_auto_discovery_check("A")
    \/ try_connect_check("A")
    \/ \E ok \in BOOLEAN : try_connect_connect("A", ok)
    \/ try_connect_insert("A")
    \/ \E g \in 1..MaxSessions : connection_lost("A", "B", g)

\* The runtime schedules every task that can run, and every I/O call
\* returns (WF); tokio's Mutex is fair, so a task that asks for the
\* registry lock gets it although others take it in between (SF).  The
\* user, the discovery stream and the network owe nothing.
LiveFairness ==
    /\ WF_vars(setup_message_handler("A"))
    /\ WF_vars(poll_clipboard("A", TRUE, TRUE))
    /\ WF_vars(check_exit_signal("A"))
    /\ WF_vars(shutdown("A"))
    /\ WF_vars(broadcast_message_open_bi("A"))
    /\ WF_vars(broadcast_message_write_all("A"))
    /\ WF_vars(\E ok \in BOOLEAN : try_connect_connect("A", ok))
    /\ SF_vars(broadcast_message_lock("A"))
    /\ SF_vars(broadcast_message_cleanup("A"))
    /\ SF_vars(start_auto_discovery_check("A"))
    /\ SF_vars(try_connect_check("A"))
    /\ SF_vars(try_connect_insert("A"))

SpecLive == LiveInit /\ [][LiveNext]_vars /\ LiveFairness

\* C15: whenever the interrupt is raised while the polling loop runs (and
\* has not ended the process on the spot), the loop eventually ends and the
\* process stops through shutdown.
C15_ShutdownLiveness ==
    \A n \in Nodes : (sig[n].raised /\ pc[n] # "killed") ~> pc[n] = "stopped"

\* the positions at which a task waits for the registry lock
AwaitsRegistry(n) ==
    {p \in {"bc_lock", "bc_relock"} : pc[n] = p}
      \cup {p \in {"check", "try", "insert"} : disc[n].pc = p}

\* C17: the holder of the registry lock is at an I/O call and asks for no
\* lock; a task that waits for the registry lock at some position
\* eventually leaves that position.
C17_DeadlockFree ==
    /\ [](\A n \in Nodes :
            regLock[n] # "free" =>
               /\ pc[n] \in {"bc_open", "bc_write"}
               /\ AwaitsRegistry(n) \cap {"bc_lock", "bc_relock"} = {})
    /\ \A n \in Nodes :
         \A p \in {"bc_lock", "bc_relock", "check", "try", "insert"} :
            (p \in AwaitsRegistry(n)) ~> (p \notin AwaitsRegistry(n))

\* the discovery task waits for the lock while a broadcast holds it
C17_Witness ==
    /\ regLock["A"] = "broadcast"
    /\ disc["A"].pc \in {"check", "try", "insert"}

(* ---------------- the mutual specification: SpecMutual ----------------- *)

MutualNodes == {"A", "B"}

\* the other device of the two
Other(n) == IF n = "A" THEN "B" ELSE "A"

\* what the user of device n copies
MutualClip(n) == IF n = "A" THEN ClipText("a") ELSE ClipText("b")

\* each of the two devices holds a session to the other
BothConnected ==
    \A n \in MutualNodes : connections[n][Other(n)] # NoConn

\* the user of n copies a text, once, when both devices hold their sessions
copy_when_connected(n) ==
    /\ BothConnected
    /\ copies[n] = 0
    /\ user_copy(n, MutualClip(n))

\* the discovery stream of n yields the other device, not yet registered
discover_peer(n) ==
    /\ connections[n][Other(n)] = NoConn
    /\ discovery_next(n, Other(n))

\* Devices A and B both run `auto`; each discovers the other and connects
\* to it.  The transport is healthy: every connect succeeds and no
\* connection is lost, so no broadcast has a failed peer to remove.
MutualInit ==
    InitWith([n \in Nodes |-> IF n \in MutualNodes THEN Auto ELSE Off])

MutualNext ==
    \E n \in MutualNodes :
       \/ setup_message_handler(n)
       \/ copy_when_connected(n)
       \/ poll_clipboard(n, TRUE, TRUE)
       \/ broadcast_message_lock(n)
       \/ broadcast_message_open_bi(n)
       \/ broadcast_message_write_all(n)
       \/ check_exit_signal(n)
       \/ discover_peer(n)
       \/ start_auto_discovery_check(n)
       \/ try_connect_check(n)
       \/ try_connect_connect(n, TRUE)
       \/ try_connect_insert(n)
       \/ accept_bi(Other(n), n, 1)
       \/ \E k \in {0, MessageLen} : accept_read(Other(n), n, 1, k)
       \/ message_task_recv(n, TRUE)

\* The runtime schedules every task that can run and every I/O call
\* returns (WF); a task that asks for the registry lock gets it (SF).  The
\* users and the discovery streams owe nothing.
MutualFairness ==
    \A n \in MutualNodes :
       /\ WF_vars(setup_message_handler(n))
       /\ WF_vars(poll_clipboard(n, TRUE, TRUE))
       /\ WF_vars(check_exit_signal(n))
       /\ WF_vars(broadcast_message_open_bi(n))
       /\ WF_vars(broadcast_message_write_all(n))
       /\ WF_vars(try_connect_connect(n, TRUE))
       /\ WF_vars(accept_bi(Other(n), n, 1))
       /\ WF_vars(\E k \in {0, MessageLen} : accept_read(Other(n), n, 1, k))
       /\ WF_vars(message_task_recv(n, TRUE))
       /\ SF_vars(broadcast_message_lock(n))
       /\ SF_vars(start_auto_discovery_check(n))
       /\ SF_vars(try_connect_check(n))
       /\ SF_vars(try_connect_insert(n))

SpecMutual == MutualInit /\ [][MutualNext]_vars /\ MutualFairness

\* the positions of the main task inside broadcast_message
InBroadcast(n) == pc[n] \in {"bc_lock", "bc_open", "bc_write", "bc_relock"}

\* C24: the detector of a device whose user has copied nothing starts no
\* broadcast: what the message task wrote to the clipboard is not taken for
\* a local change.
C24_NoEcho ==
    \A n \in Nodes : copies[n] = 0 => ~InBroadcast(n)

\* C25: once the users have stopped copying, the two devices reach a state
\* from which on no broadcast runs and both clipboards hold the same content.
C25_Convergence ==
    <>[](/\ \A n \in MutualNodes : ~InBroadcast(n)
         /\ clip["A"] = clip["B"])

(* ------------------ the pure functions: SpecPure ----------------------- *)

MaxTimestamp == 2
MaxAddrs == 2
MaxTextLen == 3

SeqUpTo(S, n) == UNION {[1..k -> S] : k \in 0..n}

\* every variable but pure
deviceVars == << cli, pc, clip, copies, last_text_content, last_content_type,
                 connections, regLock, bc, message_sender, queue, conn,
                 streams, acc, disc, sig, now, ticklog, applied >>

(* ClipboardMessage::to_bytes / from_bytes *)

PureContents ==
    {ContentText(t) : t \in {"", "a", "hello"}}
      \cup {ContentImage(Img1.width, Img1.height, Img1.data),
            ContentImage(NoImage.width, NoImage.height, NoImage.data)}

PureMessages ==
    {[content |-> c, timestamp |-> ts, sender_id |-> sn] :
        c \in PureContents, ts \in 0..MaxTimestamp, sn \in {"", "A"}}

(* ConnectionTicket::to_string / from_string *)

\* socket addresses, in the textual form a ticket carries
Addrs == {"10.0.0.7:4000", "[fe80::1]:4000"}
ValidNodeIds == Nodes

Tickets ==
    {[node_id |-> n, addresses |-> a] :
        n \in {"A", "B"}, a \in SeqUpTo(Addrs, MaxAddrs)}

\* network.rs:187: the JSON text of a ticket, one token per delimiter,
\* per field and per address
JsonTok(k, v) == [k |-> k, v |-> v]
ticket_to_json(t) ==
    << JsonTok("{", ""), JsonTok("node_id", t.node_id), JsonTok("[", "") >>
      \o [i \in 1..Len(t.addresses) |-> JsonTok("addr", t.addresses[i])]
      \o << JsonTok("]", ""), JsonTok("}", "") >>

\* network.rs:199: the parse succeeds on a complete object with a valid
\* node id and valid addresses only
ticket_from_json(j) ==
    LET n == Len(j)
    IN  IF /\ n >= Len(ticket_to_json(NoTicket))
           /\ j[1].k = "{"
           /\ j[2].k = "node_id" /\ j[2].v \in ValidNodeIds
           /\ j[3].k = "["
           /\ \A i \in 4..(n - 2) : j[i].k = "addr" /\ j[i].v \in Addrs
           /\ j[n - 1].k = "]"
           /\ j[n].k = "}"
        THEN [ok |-> TRUE,
              value |-> [node_id |-> j[2].v,
                         addresses |-> [i \in 1..(n - Len(ticket_to_json(NoTicket)))
                                          |-> j[i + 3].v]]]
        ELSE [ok |-> FALSE, value |-> NoTicket]

\* base64: one symbol per token, padded with "=" to whole groups
B64Group == 4
B64(tok) == [c |-> "b64", k |-> tok.k, v |-> tok.v]
Pad == [c |-> "pad", k |-> "", v |-> ""]
BadSymbol == [c |-> "bad", k |-> "", v |-> ""]
NonUtf8 == B64(JsonTok("xff", ""))

base64_encode(bytes) ==
    LET n == Len(bytes)
        pads == (B64Group - (n % B64Group)) % B64Group
    IN  [i \in 1..n |-> B64(bytes[i])] \o [i \in 1..pads |-> Pad]

base64_decode(str) ==
    LET n == Len(str)
        body == SelectSeq(str, LAMBDA x : x.c # "pad")
    IN  IF /\ n % B64Group = 0
           /\ \A i \in 1..n : str[i].c # "bad"
           /\ \A i \in 1..n : str[i].c = "pad" => \A j \in i..n : str[j].c = "pad"
           /\ n - Len(body) < B64Group
        THEN [ok |-> TRUE,
              bytes |-> [i \in 1..Len(body) |-> JsonTok(body[i].k, body[i].v)]]
        ELSE [ok |-> FALSE, bytes |-> <<>>]

\* to_string without the padding
to_string_unpadded(t) ==
    [i \in 1..Len(ticket_to_json(t)) |-> B64(ticket_to_json(t)[i])]

\* network.rs:186-191
to_string(t) == base64_encode(ticket_to_json(t))

\* network.rs:194-200: base64, then UTF-8, then JSON; each failure is an
\* error value
from_string(str) ==
    LET b == base64_decode(str)
    IN  IF ~b.ok THEN [ok |-> FALSE, value |-> NoTicket]
        ELSE IF \E i \in 1..Len(b.bytes) : b.bytes[i].k = "xff"
        THEN [ok |-> FALSE, value |-> NoTicket]
        ELSE ticket_from_json(b.bytes)

\* the ways a token gets damaged before it is passed to from_string
Damaged(str, t) ==
    [truncated |-> {SubSeq(str, 1, i) : i \in 0..(Len(str) - 1)},
     invalid_base64 |-> {[str EXCEPT ![i] = BadSymbol] : i \in 1..Len(str)},
     non_utf8 |-> {[str EXCEPT ![i] = NonUtf8] : i \in 1..Len(str)},
     malformed_json |-> {[str EXCEPT ![i] = B64(JsonTok("{", ""))] :
                           i \in {j \in 1..Len(str) : str[j].k # "{"}},
     missing_field |->
        {base64_encode(<< ticket_to_json(t)[1] >>
                         \o SubSeq(ticket_to_json(t), 3, Len(ticket_to_json(t)))),
         base64_encode(<< JsonTok("{", ""), JsonTok("node_id", t.node_id),
                          JsonTok("}", "") >>)}]

(* ClipboardContent::preview *)

\* a text is a sequence of characters; len is a character's length in
\* UTF-8 bytes
Chars == {[c |-> "a", len |-> 1], [c |-> "zhong", len |-> 3]}
Dot == [c |-> ".", len |-> 1]
Ellipsis == << Dot, Dot, Dot >>

RECURSIVE ByteLen(_)
ByteLen(text) ==
    IF text = <<>> THEN 0 ELSE Head(text).len + ByteLen(Tail(text))

\* preview that compares the length in bytes
preview_by_bytes(content, max_length) ==
    IF ByteLen(content.text) > max_length
    THEN SubSeq(content.text, 1, max_length) \o Ellipsis
    ELSE content.text

\* network.rs:116-132
preview(content, max_length) ==
    IF content.tag = "Text"
    THEN LET char_count == Len(content.text)
         IN  IF char_count > max_length
             THEN SubSeq(content.text, 1, max_length) \o Ellipsis
             ELSE content.text
    ELSE << [c |-> "image", len |-> 6], [c |-> ToString(content.width), len |-> 1],
            [c |-> "x", len |-> 1], [c |-> ToString(content.height), len |-> 1] >>

PureTexts == SeqUpTo(Chars, MaxTextLen)

(* the calls *)

PureIdle ==
    [op |-> "none", stage |-> "in",
     msg |-> NoMessage, bytes |-> <<>>,
     decoded |-> [ok |-> FALSE, value |-> NoMessage],
     ticket |-> NoTicket, token |-> <<>>, damage |-> "none",
     parsed |-> [ok |-> FALSE, value |-> NoTicket],
     content |-> ContentText(<<>>), max_length |-> 0, out |-> <<>>]

PureInputs ==
    {[PureIdle EXCEPT !.op = "message", !.msg = m] : m \in PureMessages}
      \cup {[PureIdle EXCEPT !.op = "ticket", !.ticket = t] : t \in Tickets}
      \cup {[PureIdle EXCEPT !.op = "preview", !.content = ContentText(t),
                             !.max_length = k] :
               t \in PureTexts, k \in 0..(MaxTextLen + 1)}

PureInit ==
    /\ pure \in PureInputs
    /\ InitDevices([n \in Nodes |-> Off])

call_to_bytes ==
    /\ pure.op = "message" /\ pure.stage = "in"
    /\ pure' = [pure EXCEPT !.bytes = to_bytes(pure.msg), !.stage = "encoded"]
    /\ UNCHANGED deviceVars

call_from_bytes ==
    /\ pure.op = "message" /\ pure.stage = "encoded"
    /\ pure' = [pure EXCEPT !.decoded = from_bytes(pure.bytes), !.stage = "out"]
    /\ UNCHANGED deviceVars

call_to_string ==
    /\ pure.op = "ticket" /\ pure.stage = "in"
    /\ pure' = [pure EXCEPT !.token = to_string(pure.ticket), !.stage = "encoded"]
    /\ UNCHANGED deviceVars

damage_token(kind) ==
    /\ pure.op = "ticket" /\ pure.stage = "encoded" /\ pure.damage = "none"
    /\ \E str \in Damaged(pure.token, pure.ticket)[kind] :
          pure' = [pure EXCEPT !.token = str, !.damage = kind]
    /\ UNCHANGED deviceVars

call_from_string ==
    /\ pure.op = "ticket" /\ pure.stage = "encoded"
    /\ pure' = [pure EXCEPT !.parsed = from_string(pure.token), !.stage = "out"]
    /\ UNCHANGED deviceVars

call_preview ==
    /\ pure.op = "preview" /\ pure.stage = "in"
    /\ pure' = [pure EXCEPT !.out = preview(pure.content, pure.max_length),
                            !.stage = "out"]
    /\ UNCHANGED deviceVars

PureNext ==
    \/ call_to_bytes
    \/ call_from_bytes
    \/ call_to_string
    \/ \E kind \in {"truncated", "invalid_base64", "non_utf8",
                    "malformed_json", "missing_field"} : damage_token(kind)
    \/ call_from_string
    \/ call_preview

SpecPure == PureInit /\ [][PureNext]_vars

C20_PreviewTruncation ==
    (pure.op = "preview" /\ pure.stage = "out") =>
       LET text == pure.content.text
           k == pure.max_length
       IN  /\ Len(text) <= k => pure.out = text
           /\ Len(text) > k =>
                /\ Len(pure.out) = k + Len(Ellipsis)
                /\ \A i \in 1..k : pure.out[i] = text[i]
                /\ \A i \in 1..Len(Ellipsis) : pure.out[k + i] = Dot

\* a text of multi-byte characters that fits in characters, not in bytes
C20_Witness ==
    /\ pure.op = "preview" /\ pure.stage = "out"
    /\ Len(pure.content.text) = pure.max_length
    /\ ByteLen(pure.content.text) > pure.max_length
    /\ pure.out = pure.content.text

====
